---------------------------- MODULE Spec2Model ----------------------------
(***************************************************************************)
(* mcvm: version acquisition (src/net/assets.cc, src/data/profile.cc) and  *)
(* launch argument expansion (src/io/game.cc).                             *)
(*                                                                         *)
(* Strings are sequences of atoms.  An atom is an indivisible piece of     *)
(* text: a placeholder such as "${classpath}", or a run of ordinary        *)
(* characters.  DollarAtoms lists the atoms whose text holds a '$'.        *)
(* assert() is modelled as compiled in (no NDEBUG): a failed assertion     *)
(* ends the operation in the status "AssertFail".                          *)
(***************************************************************************)
EXTENDS Naturals, Sequences, FiniteSets, TLC

VARIABLES
    \* ---- acquisition: inputs (remote documents, build platform) ----
    os,               \* OS_STRING of the build
    manifest,         \* "versions" array of the version manifest
    version,          \* the profile's version id
    libraries,        \* "libraries" array of the version descriptor
    assets,           \* hashes of the asset index "objects", in order
    \* ---- acquisition: program state ----
    fs,               \* files that exist on disk
    fs_before,        \* fs when the last operation started
    op,               \* last operation: "none", "client", "server"
    status,           \* how the last operation ended
    ver_sel,          \* <<ver_url, ver_hash>> picked by the manifest scan
    body_sha1,        \* SHA-1 of the descriptor body that was downloaded
    ret,              \* the caller's document: "empty" or "parsed"
    fetched,          \* URLs fetched by single DownloadHelpers, in order
    tasks,            \* helpers added to the MultiDownloadHelper, in order
    found,            \* indices of the libraries logged "Found library"
    native_libs,      \* paths handed to install_native_library, in order
    completed,        \* some obtain_libraries run had every transfer succeed
    completed_before, \* completed, when the last operation started
    \* ---- launch arguments ----
    offline,          \* user->is_offline()
    demo,             \* user->is_demo()
    classpath,        \* GameRunner::classpath
    phase,            \* position in parse_args
    nargs,            \* arguments of the current phase already expanded
    flags,            \* GameRunner::flags
    output,           \* GameRunner::output, as the words appended to it
    jvm_leaves,       \* literals of the jvm templates read, rules permitting
    game_leaves,      \* literals of the game templates read, rules permitting
    seq_children      \* what the children of the last Sequence expanded to

acqVars == <<os, manifest, version, libraries, assets, fs, fs_before, op,
             status, ver_sel, body_sha1, ret, fetched, tasks, found,
             native_libs, completed, completed_before>>
argVars == <<offline, demo, classpath, phase, nargs, flags, output,
             jvm_leaves, game_leaves, seq_children>>
vars == <<acqVars, argVars>>

---------------------------------------------------------------------------
\* Bounds of the model.
MaxVersions == 2
MaxEntries == 2
MaxRules == 2
MaxArgs == 2
MaxItems == 2

\* Sequences over S of length at most n.
SeqUpTo(S, n) == UNION {[1..k -> S] : k \in 0..n}

Range(s) == {s[i] : i \in DOMAIN s}

---------------------------------------------------------------------------
\* ---------------------------- acquisition -------------------------------

OsNames == {"linux", "windows"}
Ids == {"1.19", "1.20"}
Urls == {"", "https://a/v.json"}
Sha1s == {"sha1-a", "sha1-b"}
\* A manifest "sha1" that is not 40 characters long.
ShortSha1 == "sha1-short"
Sha1Size(h) == IF h \in Sha1s THEN 40 ELSE 7

VERSION_MANIFEST_URL == "https://manifest/version_manifest.json"
AssetIndexUrl == "https://assets/index.json"
ClientJarUrl == "https://jars/client.jar"
ServerJarUrl == "https://jars/server.jar"

ManifestEntries == [id : Ids, url : Urls, sha1 : Sha1s \cup {ShortSha1}]

\* Local paths (get_internal_dir() / ...).
ManifestFile == <<"assets", "version_manifest.json">>
IndexFile(v) == <<"assets", v, ".json">>
AssetIndexFile(v) == <<"assets", "indexes", v, ".json">>
LibraryPath(path_str) == <<"libraries", path_str>>
NativePath(v, path_str) == <<"versions", v, "natives", path_str>>
\* hash.substr(0, 2) + '/' + hash: a hash is <<first two characters, rest>>.
HashPath(hash) == <<hash[1], "/", hash[1], hash[2]>>
AssetPath(hash) == <<"assets", "objects">> \o HashPath(hash)
ClientJar == <<"instance", "client.jar">>
ServerJar == <<"instance", "server", "server.jar">>
EulaFile == <<"instance", "server", "eula.txt">>

file_exists(files, path) == path \in files

\* The loop over "versions" with its break: the index of the first entry whose
\* id is the version, 0 when the loop ends without one.
RECURSIVE ScanVersions(_, _, _)
ScanVersions(man, v, i) ==
    IF i > Len(man) THEN 0
    ELSE IF man[i].id = v THEN i
    ELSE ScanVersions(man, v, i + 1)

\* DownloadHelper::sha1_checksum: the body's SHA-1 is compared with the
\* checksum; a mismatch raises the fatal integrity error, which the caller
\* does not catch.
sha1_checksum(body, checksum) ==
    IF body = checksum THEN "ok" ELSE "IntegrityError"

\* What obtain_version_json leaves behind.
VersionJson(st, sel, body, urls, files, doc) ==
    [status |-> st, ver_sel |-> sel, body_sha1 |-> body, fetched |-> urls,
     written |-> files, ret |-> doc]

\* obtain_version_json without its call of sha1_checksum.
obtain_version_json_unverified(v, man, body) ==
    LET hit == ScanVersions(man, v, 1)
        ver_url == IF hit = 0 THEN "" ELSE man[hit].url
        ver_hash == IF hit = 0 THEN "" ELSE man[hit].sha1
    IN  IF hit # 0 /\ Sha1Size(ver_hash) # 40
        THEN VersionJson("AssertFail", <<ver_url, ver_hash>>, "",
                         <<VERSION_MANIFEST_URL>>, {ManifestFile}, "empty")
        ELSE IF ver_url = ""
        THEN VersionJson("VersionNotFound", <<ver_url, ver_hash>>, "",
                         <<VERSION_MANIFEST_URL>>, {ManifestFile}, "empty")
        ELSE VersionJson("ok", <<ver_url, ver_hash>>, body,
                         <<VERSION_MANIFEST_URL, ver_url>>,
                         {ManifestFile, IndexFile(v)}, "parsed")

\* obtain_version_json(version, ret), get_version_manifest included; body is
\* the SHA-1 of what the descriptor URL serves.
obtain_version_json(v, man, body) ==
    LET hit == ScanVersions(man, v, 1)
        ver_url == IF hit = 0 THEN "" ELSE man[hit].url
        ver_hash == IF hit = 0 THEN "" ELSE man[hit].sha1
    IN  IF hit # 0 /\ Sha1Size(ver_hash) # 40
        THEN VersionJson("AssertFail", <<ver_url, ver_hash>>, "",
                         <<VERSION_MANIFEST_URL>>, {ManifestFile}, "empty")
        ELSE IF ver_url = ""
        THEN VersionJson("VersionNotFound", <<ver_url, ver_hash>>, "",
                         <<VERSION_MANIFEST_URL>>, {ManifestFile}, "empty")
        ELSE IF sha1_checksum(body, ver_hash) # "ok"
        THEN VersionJson(sha1_checksum(body, ver_hash),
                         <<ver_url, ver_hash>>, body,
                         <<VERSION_MANIFEST_URL, ver_url>>,
                         {ManifestFile, IndexFile(v)}, "empty")
        ELSE VersionJson("ok", <<ver_url, ver_hash>>, body,
                         <<VERSION_MANIFEST_URL, ver_url>>,
                         {ManifestFile, IndexFile(v)}, "parsed")

\* ---- libraries and assets ----

\* A rule of a library: "action", and "os"."name" when the rule has an "os".
LibRules == [action : {"allow", "disallow"}, has_os : {TRUE},
             os_name : OsNames]
            \cup [action : {"allow", "disallow"}, has_os : {FALSE},
                  os_name : {""}]

\* The rules loop of obtain_libraries with the assignment rule_fail = <test>
\* in place of the sticky rule_fail = true: the last rule with an "os" decides.
rule_fail_last(rules, i, acc, osname) ==
    LET withOs == {k \in i..Len(rules) : rules[k].has_os}
        IsMax(k) == \A j \in withOs : j <= k
    IN  IF withOs = {} THEN acc
        ELSE \E k \in withOs :
                /\ IsMax(k)
                /\ \/ rules[k].action = "allow" /\ rules[k].os_name # osname
                   \/ rules[k].action = "disallow" /\ rules[k].os_name = osname

\* The rules loop of obtain_libraries from rule i on; acc is rule_fail so far.
RECURSIVE rule_fail(_, _, _, _)
rule_fail(rules, i, acc, osname) ==
    IF i > Len(rules) THEN acc
    ELSE LET rule == rules[i]
             veto == /\ rule.has_os
                     /\ \/ rule.action = "allow" /\ rule.os_name # osname
                        \/ rule.action = "disallow" /\ rule.os_name = osname
         IN  rule_fail(rules, i + 1, acc \/ veto, osname)

\* The artifact "url" of a library: one per artifact path.
LibUrl(lib) == <<"https://libraries/", lib.path>>

LibDest(lib, v) ==
    IF lib.natives THEN NativePath(v, lib.path) ELSE LibraryPath(lib.path)

\* The two tests of the libraries loop without the first: a library is passed
\* over only when a rule fails.
LibrarySkipped_RulesOnly(lib, files, v, osname) ==
    lib.has_rules /\ rule_fail(lib.rules, 1, FALSE, osname)

\* The two tests of the libraries loop that end in "continue": the file is
\* there already, or a rule fails.
LibrarySkipped(lib, files, v, osname) ==
    \/ file_exists(files, LibDest(lib, v))
    \/ lib.has_rules /\ rule_fail(lib.rules, 1, FALSE, osname)

NoPlan == [tasks |-> <<>>, found |-> <<>>, native_libs |-> <<>>]

\* The loop over "libraries" from entry i on.
RECURSIVE PlanLibraries(_, _, _, _, _, _)
PlanLibraries(libs, i, files, v, osname, acc) ==
    IF i > Len(libs) THEN acc
    ELSE LET lib == libs[i]
             path == LibDest(lib, v)
             acc1 == IF lib.natives
                     THEN [acc EXCEPT !.native_libs = Append(@, path)]
                     ELSE acc
             acc2 == IF LibrarySkipped(lib, files, v, osname) THEN acc1
                     ELSE [acc1 EXCEPT
                             !.tasks = Append(@, [url |-> LibUrl(lib),
                                                  dest |-> path]),
                             !.found = Append(@, i)]
         IN  PlanLibraries(libs, i + 1, files, v, osname, acc2)

\* The loop over the asset index "objects" from object i on.
RECURSIVE PlanAssets(_, _, _, _)
PlanAssets(objs, i, files, acc) ==
    IF i > Len(objs) THEN acc
    ELSE LET hash == objs[i]
             path == AssetPath(hash)
             acc1 == IF file_exists(files, path) THEN acc
                     ELSE [acc EXCEPT !.tasks = Append(@,
                            [url |-> <<"http://resources.download.minecraft.net/">>
                                     \o HashPath(hash),
                             dest |-> path])]
         IN  PlanAssets(objs, i + 1, files, acc1)

\* MultiDownloadHelper::perform_blocking: every transfer runs to its end; the
\* transfers in failed write nothing, the others write their destination.
perform_blocking(batch, failed, files) ==
    files \cup {batch[i].dest : i \in (DOMAIN batch) \ failed}

\* obtain_libraries(version, ret); failed are the transfers of the batch that
\* fail.
obtain_libraries(v, man, body, libs, objs, files, osname, failed) ==
    LET vj == obtain_version_json(v, man, body)
        files1 == files \cup vj.written
    IN  IF vj.status # "ok"
        THEN [vj |-> vj, plan |-> NoPlan, fs |-> files1, installed |-> <<>>,
              all_done |-> FALSE]
        ELSE LET libplan == PlanLibraries(libs, 1, files1, v, osname, NoPlan)
                 files2 == files1 \cup {AssetIndexFile(v)}
                 plan == PlanAssets(objs, 1, files2, libplan)
                 files3 == perform_blocking(plan.tasks, failed, files2)
             IN  [vj |-> vj, plan |-> plan, fs |-> files3,
                  installed |-> plan.native_libs,
                  all_done |-> (DOMAIN plan.tasks) \cap failed = {}]

\* The batch obtain_libraries builds.
Batch(v, man, body, libs, objs, files, osname) ==
    obtain_libraries(v, man, body, libs, objs, files, osname, {}).plan.tasks

\* ClientInstance::create
ClientCreate ==
    \E body \in Sha1s :
      \E failed \in SUBSET DOMAIN Batch(version, manifest, body, libraries,
                                        assets, fs, os) :
        LET r == obtain_libraries(version, manifest, body, libraries, assets,
                                  fs, os, failed)
            good == r.vj.status = "ok"
        IN  /\ op' = "client"
            /\ fs_before' = fs
            /\ completed_before' = completed
            /\ status' = r.vj.status
            /\ ver_sel' = r.vj.ver_sel
            /\ body_sha1' = r.vj.body_sha1
            /\ ret' = r.vj.ret
            /\ tasks' = r.plan.tasks
            /\ found' = r.plan.found
            /\ native_libs' = r.installed
            /\ completed' = (completed \/ (good /\ r.all_done))
            /\ fs' = IF good THEN r.fs \cup {ClientJar} ELSE r.fs
            /\ fetched' = IF good THEN r.vj.fetched \o <<ClientJarUrl>>
                          ELSE r.vj.fetched
            /\ UNCHANGED <<os, manifest, version, libraries, assets>>
            /\ UNCHANGED argVars

\* ServerInstance::create
ServerCreate ==
    \E body \in Sha1s, eula \in BOOLEAN :
        LET vj == obtain_version_json(version, manifest, body)
            good == vj.status = "ok"
        IN  /\ op' = "server"
            /\ fs_before' = fs
            /\ completed_before' = completed
            /\ status' = IF ~good THEN vj.status
                         ELSE IF eula THEN "ok" ELSE "FileOpenError"
            /\ ver_sel' = vj.ver_sel
            /\ body_sha1' = vj.body_sha1
            /\ ret' = vj.ret
            /\ tasks' = <<>>
            /\ found' = <<>>
            /\ native_libs' = <<>>
            /\ completed' = completed
            /\ fs' = fs \cup vj.written
                     \cup (IF good THEN {ServerJar} ELSE {})
                     \cup (IF good /\ eula THEN {EulaFile} ELSE {})
            /\ fetched' = IF good THEN vj.fetched \o <<ServerJarUrl>>
                          ELSE vj.fetched
            /\ UNCHANGED <<os, manifest, version, libraries, assets>>
            /\ UNCHANGED argVars

NextAcq == ClientCreate \/ ServerCreate

\* ---- initial states ----

AssetHashes == {<<"01", "aa">>, <<"f3", "bb">>}
PathStrs == {"a.jar", "b.jar"}

Library(path_str, natives, has_rules, rules) ==
    [path |-> path_str, natives |-> natives, has_rules |-> has_rules,
     rules |-> rules]

\* Libraries with no rules, or with the one rule that disallows "linux".
SimpleLibraries ==
    {Library(p, n, FALSE, <<>>) : p \in PathStrs, n \in BOOLEAN}
    \cup {Library(p, n, TRUE, <<[action |-> "disallow", has_os |-> TRUE,
                                 os_name |-> "linux"]>>) :
            p \in PathStrs, n \in BOOLEAN}

\* One library with any list of rules.
RuledLibraries ==
    {Library("a.jar", n, FALSE, <<>>) : n \in BOOLEAN}
    \cup {Library("a.jar", n, TRUE, rs) :
            n \in BOOLEAN, rs \in SeqUpTo(LibRules, MaxRules)}

GoodManifest ==
    <<[id |-> "1.20", url |-> "https://a/v.json", sha1 |-> "sha1-b"],
      [id |-> "1.19", url |-> "https://a/v.json", sha1 |-> "sha1-a"]>>

\* The lists of libraries and of asset hashes with at most MaxEntries entries
\* between them.
Descriptors ==
    {d \in SeqUpTo(SimpleLibraries, MaxEntries)
            \X SeqUpTo(AssetHashes, MaxEntries) :
        Len(d[1]) + Len(d[2]) <= MaxEntries}

NoSequence == [is_seq |-> FALSE, ok |-> TRUE, flags |-> <<>>]

ArgsIdle ==
    /\ offline = FALSE
    /\ demo = FALSE
    /\ classpath = <<>>
    /\ phase = "idle"
    /\ nargs = 0
    /\ flags = <<>>
    /\ output = <<>>
    /\ jvm_leaves = <<>>
    /\ game_leaves = <<>>
    /\ seq_children = NoSequence

AcqFresh ==
    /\ fs = {}
    /\ fs_before = {}
    /\ op = "none"
    /\ status = "idle"
    /\ ver_sel = <<"", "">>
    /\ body_sha1 = ""
    /\ ret = "empty"
    /\ fetched = <<>>
    /\ tasks = <<>>
    /\ found = <<>>
    /\ native_libs = <<>>
    /\ completed = FALSE
    /\ completed_before = FALSE

\* Any manifest, one fixed descriptor.
InitResolve ==
    /\ os = "linux"
    /\ manifest \in SeqUpTo(ManifestEntries, MaxVersions)
    /\ version \in Ids
    /\ libraries = <<Library("a.jar", FALSE, FALSE, <<>>)>>
    /\ assets = <<>>
    /\ AcqFresh
    /\ ArgsIdle

\* One library with any rules, on any OS.
InitRules ==
    /\ os \in OsNames
    /\ manifest = GoodManifest
    /\ version = "1.19"
    /\ libraries \in {<<l>> : l \in RuledLibraries}
    /\ assets = <<>>
    /\ AcqFresh
    /\ ArgsIdle

\* Any list of libraries and assets.
InitAcq ==
    /\ os = "linux"
    /\ manifest = GoodManifest
    /\ version = "1.19"
    /\ \E d \in Descriptors : libraries = d[1] /\ assets = d[2]
    /\ AcqFresh
    /\ ArgsIdle

SpecResolve == InitResolve /\ [][NextAcq]_vars
SpecRules == InitRules /\ [][NextAcq]_vars
SpecAcq == InitAcq /\ [][NextAcq]_vars

---------------------------------------------------------------------------
\* -------------------------- launch arguments ----------------------------

ARCH_STRING == "x64"
version_string == "1.19"
mc_dir == "/instance/.minecraft"
paths_assets == "/internal/assets"
main_class == "net.minecraft.client.main.Main"
DebugFlag == <<"-Dorg.lwjgl.util.DebugLoader=true">>

AuthTokens == {"${auth_player_name}", "${auth_access_token}", "${auth_uuid}"}
AuthValues == {"CarbonSmasher", "abc123abc123", "aaaaa-aaaaa-aaaa-a"}

\* The atoms whose text holds a '$'.
DollarAtoms ==
    AuthTokens \cup
    {"${launcher_name}", "${launcher_version}", "${classpath}",
     "${natives_directory}", "${version_name}", "${version_type}",
     "${game_directory}", "${assets_root}", "${assets_index_name}",
     "${user_type}", "${resolution_width}", "$HOME/a.jar"}

\* contents.find('$') != npos
HasDollar(contents) == \E i \in DOMAIN contents : contents[i] \in DollarAtoms

\* fandr(contents, token, with): every occurrence of token replaced.
RECURSIVE fandr(_, _, _)
fandr(contents, token, with) ==
    IF contents = <<>> THEN <<>>
    ELSE (IF Head(contents) = token THEN with ELSE <<Head(contents)>>)
         \o fandr(Tail(contents), token, with)

\* _GAME_ARG_REPL(check, expr)
GAME_ARG_REPL(contents, check, expr) ==
    IF contents = <<check>> THEN <<expr>> ELSE contents

Replaced(drop, st, contents) ==
    [drop |-> drop, status |-> st, contents |-> contents]

JvmReplaced(contents) ==
    LET c1 == fandr(contents, "${launcher_name}", <<"mcvm">>)
        c2 == fandr(c1, "${launcher_version}", <<"alpha">>)
        c3 == fandr(c2, "${classpath}", <<"\"">> \o classpath \o <<"\"">>)
    IN  fandr(c3, "${natives_directory}",
              <<"/internal/versions/", version_string, "/natives">>)

GameReplacedDirs(contents) ==
    LET c1 == GAME_ARG_REPL(contents, "${version_name}", version_string)
        c2 == GAME_ARG_REPL(c1, "${version_type}", "mcvm")
        c3 == GAME_ARG_REPL(c2, "${game_directory}", mc_dir)
        c4 == GAME_ARG_REPL(c3, "${assets_root}", paths_assets)
    IN  GAME_ARG_REPL(c4, "${assets_index_name}", version_string)

GameReplacedAuth(contents) ==
    LET c1 == GAME_ARG_REPL(contents, "${auth_player_name}", "CarbonSmasher")
        c2 == GAME_ARG_REPL(c1, "${auth_access_token}", "abc123abc123")
    IN  GAME_ARG_REPL(c2, "${auth_uuid}", "aaaaa-aaaaa-aaaa-a")

\* repl_arg_token that substitutes the auth tokens whether or not the user is
\* offline.
repl_arg_token_online(contents, is_jvm) ==
    LET c == IF is_jvm THEN JvmReplaced(contents)
             ELSE GAME_ARG_REPL(GameReplacedAuth(GameReplacedDirs(contents)),
                                "${user_type}", "mojang")
    IN  IF HasDollar(c) THEN Replaced(FALSE, "AssertDollar", c)
        ELSE Replaced(FALSE, "ok", c)

\* repl_arg_token without its closing assert.
repl_arg_token_unchecked(contents, is_jvm) ==
    IF is_jvm THEN Replaced(FALSE, "ok", JvmReplaced(contents))
    ELSE LET c5 == GameReplacedDirs(contents)
         IN  IF offline /\ c5 \in {<<t>> : t \in AuthTokens}
             THEN Replaced(TRUE, "ok", c5)
             ELSE Replaced(FALSE, "ok",
                    GAME_ARG_REPL(IF offline THEN c5 ELSE GameReplacedAuth(c5),
                                  "${user_type}", "mojang"))

\* GameRunner::repl_arg_token: drop is its return value, contents the string
\* it leaves, status "AssertDollar" when its assert fails.
repl_arg_token(contents, is_jvm) ==
    IF is_jvm
    THEN LET c == JvmReplaced(contents)
         IN  IF HasDollar(c) THEN Replaced(FALSE, "AssertDollar", c)
             ELSE Replaced(FALSE, "ok", c)
    ELSE LET c5 == GameReplacedDirs(contents)
         IN  IF offline /\ c5 \in {<<t>> : t \in AuthTokens}
             THEN Replaced(TRUE, "ok", c5)
             ELSE LET c == GAME_ARG_REPL(
                             IF offline THEN c5 ELSE GameReplacedAuth(c5),
                             "${user_type}", "mojang")
                  IN  IF HasDollar(c) THEN Replaced(FALSE, "AssertDollar", c)
                      ELSE Replaced(FALSE, "ok", c)

\* is_allowed(action)
is_allowed(action) == action = "allow"

\* One pass of the rules loop of parse_single_arg: does this rule return?
RuleReturns(rule) ==
    LET allowed == is_allowed(rule.action)
    IN  \/ /\ rule.has_os
           /\ \/ rule.has_name /\ allowed # (os = rule.name)
              \/ rule.has_arch /\ allowed # (ARCH_STRING = rule.arch)
        \/ /\ rule.has_features
           /\ \/ rule.custom_resolution
              \/ rule.demo_user /\ ~demo

\* The rules loop of parse_single_arg from rule i on: does it return?
RECURSIVE RulesReturn(_, _)
RulesReturn(rules, i) ==
    IF i > Len(rules) THEN FALSE
    ELSE IF RuleReturns(rules[i]) THEN TRUE
    ELSE RulesReturn(rules, i + 1)

\* GameRunner::add_flag
add_flag(fl, flag) == Append(fl, flag)

\* GameRunner::add_word: output is kept as the words appended to it.
add_word(out, word) == Append(out, word)

\* GameRunner::write_flags that leaves flags as it is.
write_flags_keep(out, fl) == [output |-> out \o fl, flags |-> fl]

\* GameRunner::write_flags
RECURSIVE AddWords(_, _, _)
AddWords(out, fl, i) ==
    IF i > Len(fl) THEN out ELSE AddWords(add_word(out, fl[i]), fl, i + 1)

write_flags(out, fl) == [output |-> AddWords(out, fl, 1), flags |-> <<>>]

\* The end of parse_single_arg, after the branch on the type of arg; st is
\* [flags, status].
TokenAndFlag(contents, is_jvm, st) ==
    LET r == repl_arg_token(contents, is_jvm)
    IN  IF r.status # "ok" THEN [st EXCEPT !.status = r.status]
        ELSE IF r.drop
        THEN [st EXCEPT !.flags = IF Len(@) > 0
                                  THEN SubSeq(@, 1, Len(@) - 1) ELSE @]
        ELSE IF r.contents = <<>> THEN [st EXCEPT !.status = "AssertEmpty"]
        ELSE [st EXCEPT !.flags = add_flag(@, r.contents)]

\* GameRunner::parse_single_arg; a failed assert ends the expansion.
RECURSIVE parse_single_arg(_, _, _)
RECURSIVE ParseItems(_, _, _, _)
ParseItems(items, i, is_jvm, st) ==
    IF i > Len(items) \/ st.status # "ok" THEN st
    ELSE ParseItems(items, i + 1, is_jvm,
                    parse_single_arg(items[i], is_jvm, st))

parse_single_arg(arg, is_jvm, st) ==
    IF st.status # "ok" THEN st
    ELSE IF arg.kind = "string" THEN TokenAndFlag(arg.str, is_jvm, st)
    ELSE IF arg.kind = "object"
    THEN IF RulesReturn(arg.rules, 1) THEN st
         ELSE parse_single_arg(arg.value, is_jvm, st)
    ELSE LET st1 == ParseItems(arg.items, 1, is_jvm, st)
         IN  IF st1.status # "ok" THEN st1
             ELSE TokenAndFlag(<<>>, is_jvm, st1)

\* ---- templates ----

Str(s) == [kind |-> "string", str |-> s]
Obj(rules, value) == [kind |-> "object", rules |-> rules, value |-> value]
Arr(items) == [kind |-> "array", items |-> items]

ArgRule(action) ==
    [action |-> action, has_os |-> FALSE, has_name |-> FALSE, name |-> "",
     has_arch |-> FALSE, arch |-> "", has_features |-> FALSE,
     custom_resolution |-> FALSE, demo_user |-> FALSE]

ArgRuleLists ==
    {<<[ArgRule("allow") EXCEPT !.has_os = TRUE, !.has_name = TRUE,
                                !.name = "linux"]>>,
     <<[ArgRule("allow") EXCEPT !.has_os = TRUE, !.has_arch = TRUE,
                                !.arch = "x86"]>>,
     <<[ArgRule("allow") EXCEPT !.has_features = TRUE, !.demo_user = TRUE]>>,
     <<[ArgRule("allow") EXCEPT !.has_features = TRUE,
                                !.custom_resolution = TRUE]>>,
     <<[ArgRule("disallow") EXCEPT !.has_os = TRUE, !.has_name = TRUE,
                                   !.name = "osx"],
       [ArgRule("allow") EXCEPT !.has_os = TRUE, !.has_name = TRUE,
                                !.name = "linux"]>>}

Literals ==
    {<<"--username">>, <<"${auth_player_name}">>, <<"${version_name}">>,
     <<"-cp=", "${classpath}">>}

ArrayItems == {<<"--username">>, <<"${auth_player_name}">>}
Arrays == {Arr(its) : its \in SeqUpTo({Str(l) : l \in ArrayItems}, MaxItems)}

Templates ==
    {Str(l) : l \in Literals}
    \cup Arrays
    \cup {Obj(rs, Str(l)) : rs \in ArgRuleLists, l \in Literals}
    \cup {Obj(rs, a) : rs \in ArgRuleLists, a \in Arrays}

\* The literals of a template that its rules let through, in order.
RECURSIVE Leaves(_)
RECURSIVE LeavesOf(_, _)
LeavesOf(items, i) ==
    IF i > Len(items) THEN <<>>
    ELSE Leaves(items[i]) \o LeavesOf(items, i + 1)

Leaves(arg) ==
    IF arg.kind = "string" THEN <<arg.str>>
    ELSE IF arg.kind = "object"
    THEN IF \E k \in DOMAIN arg.rules : RuleReturns(arg.rules[k]) THEN <<>>
         ELSE Leaves(arg.value)
    ELSE LeavesOf(arg.items, 1)

\* For a Sequence, or a Conditional that is let through onto a Sequence: what
\* expanding its children, one after the other, makes of the flags.
ChildrenExpanded(arg, is_jvm, fl) ==
    LET a == IF arg.kind = "object" /\ ~RulesReturn(arg.rules, 1)
             THEN arg.value ELSE arg
    IN  IF a.kind # "array" \/ arg.kind = "string"
           \/ (arg.kind = "object" /\ RulesReturn(arg.rules, 1))
        THEN NoSequence
        ELSE LET st == ParseItems(a.items, 1, is_jvm,
                                  [flags |-> fl, status |-> "ok"])
             IN  [is_seq |-> TRUE, ok |-> st.status = "ok", flags |-> st.flags]

\* ---- parse_args, one step per top-level argument ----

\* parse_single_arg(arg, true, paths) for the next element of jvm_args
ParseJvmArg ==
    /\ phase = "jvm"
    /\ nargs < MaxArgs
    /\ \E arg \in Templates :
        LET st == parse_single_arg(arg, TRUE, [flags |-> flags, status |-> "ok"])
        IN  /\ flags' = st.flags
            /\ phase' = IF st.status = "ok" THEN "jvm" ELSE st.status
            /\ jvm_leaves' = jvm_leaves \o Leaves(arg)
            /\ seq_children' = ChildrenExpanded(arg, TRUE, flags)
    /\ nargs' = nargs + 1
    /\ UNCHANGED <<offline, demo, classpath, output, game_leaves>>
    /\ UNCHANGED acqVars

\* jvm_args is exhausted: the debug flag, write_flags, the main class
FlushJvm ==
    /\ phase = "jvm"
    /\ LET w == write_flags(output, add_flag(flags, DebugFlag))
       IN  /\ output' = add_word(w.output, <<main_class>>)
           /\ flags' = w.flags
    /\ phase' = "game"
    /\ nargs' = 0
    /\ seq_children' = NoSequence
    /\ UNCHANGED <<offline, demo, classpath, jvm_leaves, game_leaves>>
    /\ UNCHANGED acqVars

\* parse_single_arg(arg, false, paths) for the next element of game_args
ParseGameArg ==
    /\ phase = "game"
    /\ nargs < MaxArgs
    /\ \E arg \in Templates :
        LET st == parse_single_arg(arg, FALSE, [flags |-> flags, status |-> "ok"])
        IN  /\ flags' = st.flags
            /\ phase' = IF st.status = "ok" THEN "game" ELSE st.status
            /\ game_leaves' = game_leaves \o Leaves(arg)
            /\ seq_children' = ChildrenExpanded(arg, FALSE, flags)
    /\ nargs' = nargs + 1
    /\ UNCHANGED <<offline, demo, classpath, output, jvm_leaves>>
    /\ UNCHANGED acqVars

\* game_args is exhausted: the last write_flags
FlushGame ==
    /\ phase = "game"
    /\ LET w == write_flags(output, flags)
       IN  /\ output' = w.output
           /\ flags' = w.flags
    /\ phase' = "done"
    /\ seq_children' = NoSequence
    /\ UNCHANGED <<offline, demo, classpath, nargs, jvm_leaves, game_leaves>>
    /\ UNCHANGED acqVars

NextArgs == ParseJvmArg \/ FlushJvm \/ ParseGameArg \/ FlushGame

Classpaths == {<<"a.jar:b.jar">>, <<"$HOME/a.jar">>}

InitArgs ==
    /\ os = "linux"
    /\ manifest = GoodManifest
    /\ version = "1.19"
    /\ libraries = <<>>
    /\ assets = <<>>
    /\ AcqFresh
    /\ offline \in BOOLEAN
    /\ demo \in BOOLEAN
    /\ classpath \in Classpaths
    /\ phase = "jvm"
    /\ nargs = 0
    /\ flags = <<>>
    /\ output = <<>>
    /\ jvm_leaves = <<>>
    /\ game_leaves = <<>>
    /\ seq_children = NoSequence

SpecArgs == InitArgs /\ [][NextArgs]_vars

---------------------------------------------------------------------------
\* ---------------------------- properties --------------------------------

HasEntry == \E i \in DOMAIN manifest : manifest[i].id = version

\* C1: once an operation has resolved the version: when the manifest has an
\* entry whose id is the version, the scan selects the url and sha1 of such an
\* entry and the operation does not end in VersionNotFound; when it has none,
\* the operation ends in VersionNotFound and no descriptor is downloaded.
C1_ResolveSelectsEntry ==
    op # "none" =>
        /\ HasEntry =>
            /\ status # "VersionNotFound"
            /\ \E i \in DOMAIN manifest :
                /\ manifest[i].id = version
                /\ ver_sel = <<manifest[i].url, manifest[i].sha1>>
        /\ ~HasEntry =>
            /\ status = "VersionNotFound"
            /\ fetched = <<VERSION_MANIFEST_URL>>
            /\ body_sha1 = ""
            /\ IndexFile(version) \notin fs

\* C2: a run of obtain_libraries that follows a run in which every transfer
\* of the batch succeeded adds no task to its batch; and no run ever adds a
\* task whose destination existed when the run started.
C2_IdempotentAcquisition ==
    op = "client" =>
        /\ completed_before => tasks = <<>>
        /\ \A j \in DOMAIN tasks : tasks[j].dest \notin fs_before

C2_Witness ==
    /\ op = "client"
    /\ status = "ok"
    /\ completed_before
    /\ tasks = <<>>
    /\ \E i \in DOMAIN libraries : LibDest(libraries[i], version) \in fs
    /\ \E i \in DOMAIN assets : AssetPath(assets[i]) \in fs

\* A rule vetoes its library on this OS.
Vetoes(rule) ==
    /\ rule.has_os
    /\ \/ rule.action = "allow" /\ rule.os_name # os
       \/ rule.action = "disallow" /\ rule.os_name = os

TaskFor(i) ==
    /\ i \in Range(found)
    /\ [url |-> LibUrl(libraries[i]),
        dest |-> LibDest(libraries[i], version)] \in Range(tasks)

\* C3: after obtain_libraries has planned, a library with rules whose
\* destination did not exist has a download task exactly when none of its
\* rules vetoes it, whatever the order of the rules; with the single rule
\* allow/os N exactly when the OS is N, and with the single rule disallow/os N
\* exactly when the OS is not N.
C3_LibraryRules ==
    (op = "client" /\ status = "ok") =>
        \A i \in DOMAIN libraries :
            LET lib == libraries[i]
            IN  (lib.has_rules /\ LibDest(lib, version) \notin fs_before) =>
                /\ TaskFor(i) <=>
                       ~\E k \in DOMAIN lib.rules : Vetoes(lib.rules[k])
                /\ \A N \in OsNames :
                    /\ lib.rules = <<[action |-> "allow", has_os |-> TRUE,
                                      os_name |-> N]>>
                         => (TaskFor(i) <=> os = N)
                    /\ lib.rules = <<[action |-> "disallow", has_os |-> TRUE,
                                      os_name |-> N]>>
                         => (TaskFor(i) <=> os # N)

\* A library whose first rule vetoes it and whose last rule does not was left
\* out of the batch.
C3_Witness ==
    /\ op = "client"
    /\ status = "ok"
    /\ \E i \in DOMAIN libraries :
        LET lib == libraries[i]
        IN  /\ lib.has_rules
            /\ Len(lib.rules) >= 2
            /\ Vetoes(lib.rules[1])
            /\ ~Vetoes(lib.rules[Len(lib.rules)])
            /\ LibDest(lib, version) \notin fs_before
            /\ ~TaskFor(i)

NoAuthText(flag) ==
    \A k \in DOMAIN flag : flag[k] \notin AuthTokens \cup AuthValues

\* C4: with an offline user, no flag in the flag list and no word of the
\* command is an auth token or holds the value substituted for one.
C4_OfflineNoAuth ==
    offline =>
        /\ \A i \in DOMAIN flags : NoAuthText(flags[i])
        /\ \A i \in DOMAIN output : NoAuthText(output[i])

\* parse_args has completed for an offline user whose game templates held an
\* auth token, and game flags were written to the command.
C4_Witness ==
    /\ offline
    /\ phase = "done"
    /\ Len(game_leaves) >= 2
    /\ \E i \in DOMAIN game_leaves : game_leaves[i] = <<"${auth_player_name}">>
    /\ Len(output) > Len(jvm_leaves) + 2

AssertPhases == {"AssertDollar", "AssertEmpty"}

\* The text a game literal becomes, and whether the offline user drops it.
GameDropped(leaf) ==
    offline /\ GameReplacedDirs(leaf) \in {<<t>> : t \in AuthTokens}

GameText(leaf) ==
    GAME_ARG_REPL(IF offline THEN GameReplacedDirs(leaf)
                  ELSE GameReplacedAuth(GameReplacedDirs(leaf)),
                  "${user_type}", "mojang")

\* C5: no flag of the flag list and no word of the command holds a '$'; and
\* once a literal that still holds a '$' after the replacement of its phase
\* has been expanded, the expansion has ended in a failed assert.
C5_NoDollarInFlags ==
    /\ \A i \in DOMAIN flags : ~HasDollar(flags[i])
    /\ \A i \in DOMAIN output : ~HasDollar(output[i])
    /\ (\E i \in DOMAIN jvm_leaves : HasDollar(JvmReplaced(jvm_leaves[i])))
         => phase \in AssertPhases
    /\ (\E i \in DOMAIN game_leaves :
          /\ ~GameDropped(game_leaves[i])
          /\ HasDollar(GameText(game_leaves[i])))
         => phase \in AssertPhases

\* The expansion has ended on a literal that kept a '$', with flags already
\* in the list.
C5_Witness ==
    /\ phase = "AssertDollar"
    /\ flags # <<>>
    /\ \/ \E i \in DOMAIN jvm_leaves : HasDollar(JvmReplaced(jvm_leaves[i]))
       \/ \E i \in DOMAIN game_leaves : HasDollar(GameText(game_leaves[i]))

\* C6: no two tasks of a batch have the same destination.
C6_DistinctDestinations ==
    \A i, j \in DOMAIN tasks : i # j => tasks[i].dest # tasks[j].dest

\* C7: when the descriptor body that was downloaded does not have the sha1
\* of the manifest entry, the operation ends in IntegrityError, the document
\* stays unparsed, nothing is planned, installed or fetched after it, and no
\* run counts as complete because of it.
C7_DescriptorIntegrity ==
    (op # "none" /\ body_sha1 # "" /\ body_sha1 # ver_sel[2]) =>
        /\ status = "IntegrityError"
        /\ ret = "empty"
        /\ tasks = <<>>
        /\ found = <<>>
        /\ native_libs = <<>>
        /\ fetched = <<VERSION_MANIFEST_URL, ver_sel[1]>>
        /\ fs = fs_before \cup {ManifestFile, IndexFile(version)}
        /\ completed = completed_before

C7_Witness ==
    /\ op = "client"
    /\ status = "IntegrityError"
    /\ body_sha1 # ""
    /\ body_sha1 # ver_sel[2]
    /\ libraries # <<>>

\* C8: when the last template expanded was a Sequence (or a Conditional let
\* through onto one) whose children expand without a failed assert, the
\* expansion has not failed and the flag list is what the children made it.
C8_SequenceExpansion ==
    (seq_children.is_seq /\ seq_children.ok) =>
        /\ phase \notin AssertPhases
        /\ flags = seq_children.flags

RECURSIVE IsSubseq(_, _)
IsSubseq(a, b) ==
    IF a = <<>> THEN TRUE
    ELSE IF b = <<>> THEN FALSE
    ELSE IF Head(a) = Head(b) THEN IsSubseq(Tail(a), Tail(b))
    ELSE IsSubseq(a, Tail(b))

JvmExpected == [i \in DOMAIN jvm_leaves |-> JvmReplaced(jvm_leaves[i])]

GameKept == SelectSeq(game_leaves, LAMBDA l : ~GameDropped(l))
GameExpected == [i \in DOMAIN GameKept |-> GameText(GameKept[i])]

\* C9: from the first flush on, the command starts with the expanded jvm
\* literals in template order, the debug flag and the main class; the flag
\* list is empty after each flush; and when parse_args has completed, the
\* rest of the command is the expanded game literals in template order (for
\* an offline user: those that the auth drop left, in template order).
C9_CommandOrder ==
    /\ phase \in {"game", "done"} =>
        /\ Len(output) >= Len(jvm_leaves) + 2
        /\ SubSeq(output, 1, Len(jvm_leaves) + 2)
             = JvmExpected \o <<DebugFlag, <<main_class>>>>
    /\ (phase = "game" /\ nargs = 0) => flags = <<>>
    /\ phase = "game" => Len(output) = Len(jvm_leaves) + 2
    /\ phase = "done" =>
        /\ flags = <<>>
        /\ LET g == SubSeq(output, Len(jvm_leaves) + 3, Len(output))
           IN  IF offline THEN IsSubseq(g, GameExpected)
               ELSE g = GameExpected

\* parse_args has completed for an offline user, with jvm flags, and with an
\* auth token dropped in the game phase.
C9_Witness ==
    /\ phase = "done"
    /\ offline
    /\ Len(jvm_leaves) >= 2
    /\ Len(game_leaves) >= 2
    /\ \E i \in DOMAIN game_leaves : GameDropped(game_leaves[i])
    /\ Len(output) > Len(jvm_leaves) + 2

Excluded(lib) ==
    lib.has_rules /\ \E k \in DOMAIN lib.rules : Vetoes(lib.rules[k])

\* C10: after obtain_libraries, a library that its rules exclude has no
\* download task, and every path handed to install_native_library is the
\* path of a native library that its rules do not exclude.
C10_ExcludedSkipped ==
    (op = "client" /\ status = "ok") =>
        /\ \A i \in DOMAIN libraries :
            Excluded(libraries[i]) => i \notin Range(found)
        /\ \A j \in DOMAIN native_libs :
            \E i \in DOMAIN libraries :
                /\ libraries[i].natives
                /\ LibDest(libraries[i], version) = native_libs[j]
                /\ ~Excluded(libraries[i])

=============================================================================
